---- MODULE Spec2Model ----
(***************************************************************************)
(* Kani TTS backend: the download progress stream (downloader.py), the     *)
(* model registry and the synthesis orchestrator (tts_service.py).         *)
(*                                                                         *)
(* Scheduling.  The service runs one asyncio event loop.  The progress     *)
(* stream is an async generator: it runs on the loop between its           *)
(* suspension points (every yield and every await).  The metadata fetch    *)
(* and the transfer run on executor threads, concurrently with the loop.   *)
(* load_model, unload_model and generate are synchronous functions called  *)
(* on the loop, so nothing else of the loop runs while one of them runs;   *)
(* the executor threads do.                                                *)
(***************************************************************************)
EXTENDS Integers, Sequences, FiniteSets, TLC

VARIABLES
    fs,            \* local storage: one model directory per descriptor
    dl,            \* one invocation of the progress stream (an async generator)
    transfer,      \* the background transfer that invocation launches
    _models,       \* TTSService._models: model key -> handle
    _current_model_key,
    output_dir,    \* the names of the files in OUTPUT_DIR
    last,          \* the latest call of the service and what it did
    gen            \* the generate call that is running

(***************************************************************************)
(* Bounds of the model                                                     *)
(***************************************************************************)
MaxPolls == 2        \* polling snapshots in one invocation
MaxDirFiles == 3     \* files a model directory can hold

(***************************************************************************)
(* config.py                                                               *)
(***************************************************************************)
MODELS ==
    [en |-> [name |-> "English", repo_id |-> "nineninesix/kani-tts-400m-en",
             local_path |-> "models/kani-tts-400m-en"],
     de |-> [name |-> "German (Multilingual)", repo_id |-> "nineninesix/kani-tts-370m",
             local_path |-> "models/kani-tts-370m"]]

\* The model keys a caller may pass: the two descriptors and one unknown key.
ModelKeys == DOMAIN MODELS \cup {"xx"}

None == "None"

\* The variables of the service.
tts == <<_models, _current_model_key, output_dir, last, gen>>

(***************************************************************************)
(* Local storage.  A directory is described by what the code reads of it:  *)
(* whether it exists, whether a file matching an essential pattern lies    *)
(* directly in it, and its number of files.  Every file has a size of one  *)
(* unit, so the sum of the file sizes is the number of files.              *)
(***************************************************************************)
NoDir == [exists |-> FALSE, essential |-> FALSE, files |-> 0]
FullDir == [exists |-> TRUE, essential |-> TRUE, files |-> 1]

is_model_downloaded(model_key) ==
    IF model_key \notin DOMAIN MODELS THEN FALSE
    ELSE IF ~fs[model_key].exists THEN FALSE
    ELSE fs[model_key].essential

\* is_model_downloaded reads the directory more than once (exists() at line 55,
\* then is_dir() and scandir() in each glob of line 61), and local storage is
\* not owned by the process: when the directory is removed between two of
\* these readings, glob raises FileNotFoundError, which is_model_downloaded
\* lets through.  The choices of a call: whether the directory, which exists,
\* is removed while it is read.
FileNotFound == "FileNotFoundError"
RemovedWhileRead(model_key) ==
    IF model_key \in DOMAIN MODELS /\ fs[model_key].exists THEN BOOLEAN ELSE {FALSE}

\* The outcomes of _get_dir_size: the sum of the sizes, or 0 when reading the
\* directory raised.
_get_dir_size(model_key) == {fs[model_key].files, 0}

\* The outcomes of _get_file_count: the number of files, or 0 when reading raised.
_get_file_count(model_key) == {fs[model_key].files, 0}

(***************************************************************************)
(* DownloadProgress                                                        *)
(***************************************************************************)
DownloadProgress(model_key) ==
    [model_key |-> model_key, total_size |-> 0, downloaded_size |-> 0,
     current_file |-> "", status |-> "pending", error_message |-> None,
     files_total |-> 0, files_downloaded |-> 0]

\* The mutant: the ratio without the guard on an undefined total and without
\* the cap.
progress_percent_uncapped(p) ==
    IF p.total_size = 0 THEN <<p.downloaded_size * 100, 1>>
    ELSE <<p.downloaded_size * 100, p.total_size>>

\* The property progress_percent, an exact fraction <<numerator, denominator>>
\* of a percentage.
progress_percent(p) ==
    IF p.total_size = 0 THEN <<0, 1>>
    ELSE IF p.downloaded_size * 100 >= 100 * p.total_size THEN <<100, 1>>
    ELSE <<p.downloaded_size * 100, p.total_size>>

\* round(x, 1) is taken of the float x = (downloaded_size / total_size) * 100,
\* not of the fraction.  The two differ only where the fraction lies halfway
\* between two tenths: it is then (2k + 1) / 20 for a k in 0..999, the float
\* depends on k alone (the division and the product are correctly rounded),
\* and round gives k + 1 tenths when the float lies above the halfway point, or
\* is the halfway point itself with k odd, and k tenths otherwise.  These are
\* the k for which it gives k + 1.
HalvesRoundedUp ==
    {0, 3, 6, 7, 8, 10, 13, 14, 15, 16, 17, 20, 23, 24, 27, 28, 33, 34,
     37, 38, 39, 41, 44, 46, 47, 48, 49, 50, 54, 56, 57, 58, 61, 64, 65,
     66, 67, 68, 69, 77, 79, 80, 81, 84, 85, 87, 91, 95, 96, 97, 99, 100,
     101, 106, 107, 110, 111, 114, 115, 116, 117, 121, 125, 126, 127, 129,
     130, 131, 133, 134, 135, 136, 137, 138, 139, 140, 147, 151, 155, 156,
     157, 159, 160, 161, 163, 165, 166, 167, 168, 169, 170, 171, 177, 180,
     183, 185, 187, 188, 190, 193, 195, 196, 197, 198, 199, 200, 201, 207,
     210, 215, 217, 218, 220, 223, 225, 226, 227, 228, 230, 231, 233, 237,
     240, 245, 247, 248, 250, 253, 255, 256, 257, 258, 260, 261, 263, 264,
     265, 266, 267, 268, 269, 270, 271, 272, 273, 274, 275, 276, 277, 278,
     279, 280, 297, 305, 307, 308, 310, 313, 315, 317, 318, 323, 324, 325,
     327, 328, 329, 330, 333, 334, 335, 336, 337, 338, 339, 340, 341, 343,
     347, 353, 357, 358, 363, 367, 368, 369, 373, 374, 377, 378, 379, 383,
     384, 385, 387, 388, 389, 390, 393, 394, 395, 397, 398, 399, 400, 401,
     403, 404, 405, 407, 417, 418, 423, 427, 428, 429, 433, 434, 437, 438,
     439, 443, 444, 447, 448, 449, 450, 453, 454, 455, 457, 458, 459, 460,
     461, 463, 464, 465, 466, 467, 468, 477, 478, 483, 487, 488, 493, 494,
     497, 498, 499, 527, 537, 543, 547, 548, 553, 554, 557, 558, 559, 563,
     564, 567, 568, 569, 573, 574, 575, 577, 578, 579, 580, 583, 584, 585,
     586, 587, 588, 589, 590, 591, 593, 594, 595, 596, 597, 598, 599, 600,
     601, 603, 604, 605, 606, 607, 608, 609, 610, 611, 612, 613, 614, 615,
     616, 617, 618, 619, 620, 621, 622, 623, 624, 644, 647, 649, 654, 657,
     659, 664, 667, 669, 671, 674, 676, 677, 679, 681, 684, 686, 687, 689,
     691, 694, 696, 697, 699, 701, 704, 706, 707, 708, 709, 711, 713, 714,
     716, 717, 718, 719, 721, 723, 724, 726, 727, 728, 729, 731, 733, 734,
     735, 736, 737, 738, 739, 740, 741, 743, 744, 745, 746, 747, 748, 749,
     757, 767, 769, 774, 777, 779, 784, 787, 789, 794, 796, 797, 799, 801,
     804, 806, 807, 809, 811, 814, 816, 817, 819, 821, 824, 826, 827, 829,
     831, 833, 834, 836, 837, 838, 839, 841, 843, 844, 846, 847, 848, 849,
     851, 853, 854, 856, 857, 858, 859, 860, 861, 863, 864, 865, 866, 867,
     868, 869, 870, 871, 873, 874, 877, 887, 894, 897, 899, 904, 907, 909,
     914, 917, 919, 921, 924, 926, 927, 929, 931, 934, 936, 937, 939, 941,
     944, 946, 947, 949, 951, 954, 956, 957, 958, 959, 961, 963, 964, 966,
     967, 968, 969, 971, 973, 974, 976, 977, 978, 979, 981, 983, 984, 985,
     986, 987, 988, 989, 990, 991, 993, 994, 995, 996, 997, 998, 999}

\* round(x, 1) of the float of a fraction q = <<numerator, denominator>> >= 0,
\* in tenths.
round1(q) ==
    LET k == (10 * q[1]) \div q[2]
        rest == 10 * q[1] - k * q[2]
    IN  IF 2 * rest < q[2] THEN k
        ELSE IF 2 * rest > q[2] THEN k + 1
        ELSE IF k \in HalvesRoundedUp THEN k + 1
        ELSE k

to_dict(p) ==
    [model_key |-> p.model_key,
     model_name |-> MODELS[p.model_key].name,
     total_size |-> p.total_size,
     downloaded_size |-> p.downloaded_size,
     progress_percent |-> round1(progress_percent(p)),
     current_file |-> p.current_file,
     status |-> p.status,
     error_message |-> p.error_message,
     files_total |-> p.files_total,
     files_downloaded |-> p.files_downloaded]

UnknownModelSnapshot == [status |-> "error", error_message |-> "Unknown model"]

(***************************************************************************)
(* Faults of the Hugging Face client.  GatedRepoError is a subclass of     *)
(* RepositoryNotFoundError in huggingface_hub; OSError stands for any      *)
(* other exception, and its text is str(e).                                *)
(***************************************************************************)
Faults == {"GatedRepoError", "RepositoryNotFoundError", "OSError"}

IsInstance(e, class) ==
    \/ e = class
    \/ e = "GatedRepoError" /\ class = "RepositoryNotFoundError"
    \/ class = "Exception"

str(e) == "str(" \o e \o ")"

AuthRequiredMessage == "This model requires authentication. Please log in to Hugging Face."
NotFoundMessage == "Model repository not found."

\* The mutant: the two specific handlers in the other order.
except_chain_swapped(e) ==
    IF IsInstance(e, "RepositoryNotFoundError")
    THEN [caught |-> TRUE, error_message |-> NotFoundMessage]
    ELSE IF IsInstance(e, "GatedRepoError")
    THEN [caught |-> TRUE, error_message |-> AuthRequiredMessage]
    ELSE IF IsInstance(e, "Exception")
    THEN [caught |-> TRUE, error_message |-> str(e)]
    ELSE [caught |-> FALSE, error_message |-> None]

\* The except clauses of download_model_with_progress, in their order: whether
\* a clause catches a fault raised inside the try block, and the error_message
\* it sets.
except_chain(e) ==
    IF IsInstance(e, "GatedRepoError")
    THEN [caught |-> TRUE, error_message |-> AuthRequiredMessage]
    ELSE IF IsInstance(e, "RepositoryNotFoundError")
    THEN [caught |-> TRUE, error_message |-> NotFoundMessage]
    ELSE IF IsInstance(e, "Exception")
    THEN [caught |-> TRUE, error_message |-> str(e)]
    ELSE [caught |-> FALSE, error_message |-> None]

\* A sibling's size when the hub does not report it (size is None).
NoSize == -1

\* What repo_info(...) can return: siblings is None (is_none), or a list of
\* file sizes.
RepoInfos ==
    {[is_none |-> TRUE, siblings |-> <<>>],
     [is_none |-> FALSE, siblings |-> <<NoSize>>],
     [is_none |-> FALSE, siblings |-> <<1, 1>>]}

\* sum(s.size or 0 for s in siblings)
RECURSIVE SumSizes(_)
SumSizes(sizes) ==
    IF sizes = <<>> THEN 0
    ELSE (IF Head(sizes) = NoSize \/ Head(sizes) = 0 THEN 0 ELSE Head(sizes))
         + SumSizes(Tail(sizes))

(***************************************************************************)
(* The progress stream: download_model_with_progress.  pc is the           *)
(* suspension point the generator is at.                                   *)
(***************************************************************************)
NoProgress == [status |-> "none"]

\* out: the snapshots yielded so far; fetch: the state of the metadata fetch;
\* polls: the number of polling snapshots.  Three fields record what happened:
\* was_downloaded, whether the artifacts existed at the call; raised, the
\* exception that left the generator to its consumer; fault, the
\* exception raised inside the try block; transfer_at_close, the state of the
\* transfer when the consumer disconnected.
IdleStream ==
    [pc |-> "idle", key |-> None, progress |-> NoProgress,
     out |-> <<>>, fetch |-> "none", polls |-> 0,
     was_downloaded |-> FALSE, fault |-> None, raised |-> None,
     transfer_at_close |-> None]

Terminal == {"completed", "error"}

\* The generator runs on the event loop, which a running generate call holds.
LoopIsFree == gen.pc = "idle"

Emit(d, p) == [d EXCEPT !.progress = p, !.out = Append(d.out, to_dict(p))]

\* Lines 187-199: a fault raised inside the try block ends the stream with an
\* error snapshot; a fault that no clause catches is raised to the consumer.
HandleFault(d, e) ==
    IF except_chain(e).caught
    THEN [Emit(d, [d.progress EXCEPT !.status = "error",
                                     !.error_message = except_chain(e).error_message])
             EXCEPT !.pc = "yield_final", !.fault = e]
    ELSE [d EXCEPT !.pc = "raised", !.fault = e, !.raised = e]

\* The mutant: the stream without the short cut for a downloaded model.
StartDownload_always_transfers(model_key) ==
    /\ LoopIsFree
    /\ dl.pc = "idle"
    /\ LET d == [IdleStream EXCEPT
                    !.key = model_key,
                    !.was_downloaded = model_key \in DOMAIN MODELS
                                       /\ fs[model_key].exists
                                       /\ fs[model_key].essential]
           p == DownloadProgress(model_key)
       IN  IF model_key \notin DOMAIN MODELS
           THEN dl' = [d EXCEPT !.out = <<UnknownModelSnapshot>>, !.pc = "yield_final"]
           ELSE dl' = [Emit(d, [p EXCEPT !.status = "downloading"])
                          EXCEPT !.pc = "yield_downloading"]
    /\ UNCHANGED <<fs, transfer, tts>>

\* Lines 106-125: from the call to the first yield.  The check of line 117 is
\* outside the try block: what it raises leaves the generator.
StartDownload(model_key) ==
    /\ LoopIsFree
    /\ dl.pc = "idle"
    /\ LET d == [IdleStream EXCEPT
                    !.key = model_key,
                    !.was_downloaded = model_key \in DOMAIN MODELS
                                       /\ fs[model_key].exists
                                       /\ fs[model_key].essential]
           p == DownloadProgress(model_key)
       IN  \E removed \in RemovedWhileRead(model_key) :
              IF removed
              THEN /\ dl' = [d EXCEPT !.pc = "raised", !.raised = FileNotFound]
                   /\ fs' = [fs EXCEPT ![model_key] = NoDir]
              ELSE /\ UNCHANGED fs
                   /\ IF model_key \notin DOMAIN MODELS
                      THEN dl' = [d EXCEPT !.out = <<UnknownModelSnapshot>>,
                                           !.pc = "yield_final"]
                      ELSE IF is_model_downloaded(model_key)
                      THEN dl' = [Emit(d, [p EXCEPT !.status = "completed",
                                                    !.downloaded_size = 1,
                                                    !.total_size = 1])
                                     EXCEPT !.pc = "yield_final"]
                      ELSE dl' = [Emit(d, [p EXCEPT !.status = "downloading"])
                                     EXCEPT !.pc = "yield_downloading"]
    /\ UNCHANGED <<transfer, tts>>

\* Lines 125-128: resumed after the first yield, the generator is suspended in
\* asyncio.sleep(0.1).
AwaitConnection ==
    /\ LoopIsFree
    /\ dl.pc = "yield_downloading"
    /\ dl' = [dl EXCEPT !.pc = "sleep_connection"]
    /\ UNCHANGED <<fs, transfer, tts>>

\* Lines 128-139: after the sleep the generator submits get_repo_info to the
\* executor and awaits it.
FetchStart ==
    /\ LoopIsFree
    /\ dl.pc = "sleep_connection"
    /\ dl' = [dl EXCEPT !.pc = "fetching", !.fetch = "running"]
    /\ UNCHANGED <<fs, transfer, tts>>

\* Lines 139-148: the metadata fetch returned.
FetchDone ==
    /\ LoopIsFree
    /\ dl.pc = "fetching"
    /\ \E repo_info \in RepoInfos :
          LET siblings == IF repo_info.is_none THEN <<>> ELSE repo_info.siblings
              p == [dl.progress EXCEPT !.files_total = Len(siblings),
                                       !.total_size = SumSizes(siblings)]
          IN  dl' = [Emit(dl, p) EXCEPT !.pc = "yield_total", !.fetch = "returned"]
    /\ UNCHANGED <<fs, transfer, tts>>

\* Lines 139, 187-199: the metadata fetch raised.
FetchFault ==
    /\ LoopIsFree
    /\ dl.pc = "fetching"
    /\ \E e \in Faults : dl' = [HandleFault(dl, e) EXCEPT !.fetch = "returned"]
    /\ UNCHANGED <<fs, transfer, tts>>

\* Lines 150-167: the directory is made, the transfer is submitted to the
\* executor, the loop condition is read (the future cannot be done yet: its
\* completion reaches the loop only when the generator is suspended) and the
\* generator sleeps.  local_path.mkdir is inside the try block: when it raises
\* (the path is a regular file, the parent is read-only) the except clause of
\* line 195 ends the stream and no transfer is submitted.
Launch ==
    /\ LoopIsFree
    /\ dl.pc = "yield_total"
    /\ \E mkdir_raises \in BOOLEAN :
          IF mkdir_raises
          THEN /\ dl' = HandleFault(dl, "OSError")
               /\ UNCHANGED <<fs, transfer>>
          ELSE /\ fs' = [fs EXCEPT ![dl.key].exists = TRUE]
               /\ transfer' = [key |-> dl.key, state |-> "running"]
               /\ dl' = [dl EXCEPT !.pc = "sleeping"]
    /\ UNCHANGED tts

\* Lines 167-170: after the sleep the size of the directory is read.
Poll ==
    /\ LoopIsFree
    /\ dl.pc = "sleeping"
    /\ dl.polls < MaxPolls
    /\ \E size \in _get_dir_size(dl.key) :
          dl' = [dl EXCEPT !.progress.downloaded_size = size, !.pc = "sized"]
    /\ UNCHANGED <<fs, transfer, tts>>

\* Lines 171-173: the files of the directory are counted, in a second reading
\* of it that the thread of the transfer may have written before, and a
\* snapshot is yielded.
PollYield ==
    /\ LoopIsFree
    /\ dl.pc = "sized"
    /\ \E count \in _get_file_count(dl.key) :
          dl' = [Emit(dl, [dl.progress EXCEPT !.files_downloaded = count])
                    EXCEPT !.pc = "yield_poll", !.polls = dl.polls + 1]
    /\ UNCHANGED <<fs, transfer, tts>>

\* Line 166, not done: resumed after a polling snapshot, the transfer is
\* unresolved and the generator sleeps again.  After MaxPolls polling snapshots
\* the model leaves out the further ones, up to the resolution of the transfer.
PollAgain ==
    /\ LoopIsFree
    /\ dl.pc = "yield_poll"
    /\ transfer.state = "running"
    /\ dl.polls < MaxPolls
    /\ dl' = [dl EXCEPT !.pc = "sleeping"]
    /\ UNCHANGED <<fs, transfer, tts>>

\* The mutant: the completed snapshot is yielded inside the polling loop, which
\* goes on.
Complete_in_loop ==
    /\ LoopIsFree
    /\ dl.pc = "yield_poll"
    /\ transfer.state = "ok"
    /\ dl' = [Emit(dl, [dl.progress EXCEPT !.status = "completed",
                                           !.downloaded_size = dl.progress.total_size])
                 EXCEPT !.pc = "sleeping"]
    /\ UNCHANGED <<fs, transfer, tts>>

\* Lines 166, 175-185: the transfer succeeded.
Complete ==
    /\ LoopIsFree
    /\ dl.pc = "yield_poll"
    /\ transfer.state = "ok"
    /\ dl' = [Emit(dl, [dl.progress EXCEPT !.status = "completed",
                                           !.downloaded_size = dl.progress.total_size])
                 EXCEPT !.pc = "yield_final"]
    /\ UNCHANGED <<fs, transfer, tts>>

\* Lines 166, 175-181, 187-199: the transfer raised.
Fail ==
    /\ LoopIsFree
    /\ dl.pc = "yield_poll"
    /\ transfer.state \in Faults
    /\ dl' = HandleFault(dl, transfer.state)
    /\ UNCHANGED <<fs, transfer, tts>>

\* Lines 111, 122, 185-199: resumed after a terminal snapshot, the generator
\* returns.
Finish ==
    /\ LoopIsFree
    /\ dl.pc = "yield_final"
    /\ dl' = [dl EXCEPT !.pc = "done"]
    /\ UNCHANGED <<fs, transfer, tts>>

\* The mutant: closing the generator also gives up the transfer.
Disconnect_cancelling ==
    /\ LoopIsFree
    /\ dl.pc \notin {"idle", "sized", "done", "closed", "raised"}
    /\ dl' = [dl EXCEPT !.pc = "closed", !.transfer_at_close = transfer.state]
    /\ transfer' = IF transfer.state = "running"
                   THEN [transfer EXCEPT !.state = "cancelled"]
                   ELSE transfer
    /\ UNCHANGED <<fs, tts>>

\* The consumer disconnects: the generator is closed at the suspension point it
\* is at (between the two readings of the directory it is at none).  GeneratorExit and CancelledError are no Exception, so no except
\* clause runs and nothing is yielded; nothing in the generator holds the
\* executor's thread, which goes on.
Disconnect ==
    /\ LoopIsFree
    /\ dl.pc \notin {"idle", "sized", "done", "closed", "raised"}
    /\ dl' = [dl EXCEPT !.pc = "closed", !.transfer_at_close = transfer.state]
    /\ UNCHANGED <<fs, transfer, tts>>

(***************************************************************************)
(* The transfer: snapshot_download on an executor thread (do_download).    *)
(***************************************************************************)
NoTransfer == [key |-> None, state |-> "none"]

\* The thread writes one file into the model directory, which it makes when it
\* is not there; the name of the file may match an essential pattern.
TransferWrite ==
    /\ transfer.state = "running"
    /\ LET k == transfer.key
       IN  /\ fs[k].files < MaxDirFiles
           /\ \E essential \in BOOLEAN :
                 fs' = [fs EXCEPT ![k].exists = TRUE,
                                  ![k].files = @ + 1,
                                  ![k].essential = @ \/ essential]
    /\ UNCHANGED <<dl, transfer, tts>>

\* snapshot_download returns or raises.
TransferResolve ==
    /\ transfer.state = "running"
    /\ \E outcome \in {"ok"} \cup Faults :
          transfer' = [transfer EXCEPT !.state = outcome]
    /\ UNCHANGED <<fs, dl, tts>>

(***************************************************************************)
(* tts_service.py: the text chunker.  A text is a sequence of characters.  *)
(***************************************************************************)
MAX_CHUNK_CHARS == 200

\* The 29 characters that str.split(), str.strip() and \s of a str pattern take
\* as whitespace; a character that TLA+ has no escape for is written by its
\* code point.
Whitespace ==
    {"\t", "\n", "[U+000B]", "\f", "\r", "[U+001C]", "[U+001D]", "[U+001E]",
     "[U+001F]", " ", "[U+0085]", "[U+00A0]", "[U+1680]", "[U+2000]", "[U+2001]",
     "[U+2002]", "[U+2003]", "[U+2004]", "[U+2005]", "[U+2006]", "[U+2007]",
     "[U+2008]", "[U+2009]", "[U+200A]", "[U+2028]", "[U+2029]", "[U+202F]",
     "[U+205F]", "[U+3000]"}
SentenceEnd == {".", "!", "?"}
\* The en dash and the em dash, each one character of a text.
EnDash == "[en dash]"
EmDash == "[em dash]"
ClauseEnd == {",", ";", EnDash, EmDash}

\* The k-th smallest element of a set of numbers.
Nth(S, k) == CHOOSE i \in S : Cardinality({j \in S : j < i}) = k - 1

\* text.split(): the maximal runs of non-whitespace characters, in order.
SplitWords(text) ==
    LET starts == {i \in 1..Len(text) :
                      text[i] \notin Whitespace /\ (i = 1 \/ text[i - 1] \in Whitespace)}
        ends == {i \in 1..Len(text) :
                    text[i] \notin Whitespace
                    /\ (i = Len(text) \/ text[i + 1] \in Whitespace)}
    IN  [k \in 1..Cardinality(starts) |-> SubSeq(text, Nth(starts, k), Nth(ends, k))]

\* sep.join(parts)
RECURSIVE Join(_, _)
Join(parts, sep) ==
    IF parts = <<>> THEN <<>>
    ELSE IF Len(parts) = 1 THEN parts[1]
    ELSE parts[1] \o sep \o Join(Tail(parts), sep)

\* " ".join(text.split())
Normalize(text) == Join(SplitWords(text), <<" ">>)

\* s.strip(): from the first to the last character that is not whitespace.
Strip(s) ==
    LET solid == {i \in 1..Len(s) : s[i] \notin Whitespace}
    IN  IF solid = {} THEN <<>>
        ELSE SubSeq(s,
                    CHOOSE i \in solid : \A j \in 1..(i - 1) : s[j] \in Whitespace,
                    CHOOSE i \in solid : \A j \in (i + 1)..Len(s) : s[j] \in Whitespace)

\* re.split(r'(?<=[marks])\s+', text): a match is a maximal run of whitespace
\* that follows a character of marks; the pieces between the matches, in order.
SplitAfter(text, marks) ==
    LET starts == {i \in 2..Len(text) :
                      text[i] \in Whitespace /\ text[i - 1] \in marks}
        End(i) == CHOOSE j \in i..Len(text) :
                      /\ \A m \in i..j : text[m] \in Whitespace
                      /\ (j = Len(text) \/ text[j + 1] \notin Whitespace)
        n == Cardinality(starts) + 1
    IN  [k \in 1..n |->
            SubSeq(text,
                   IF k = 1 THEN 1 ELSE End(Nth(starts, k - 1)) + 1,
                   IF k = n THEN Len(text) ELSE Nth(starts, k) - 1)]

\* [s.strip() for s in sentences if s.strip()]
RECURSIVE StripNonEmpty(_)
StripNonEmpty(parts) ==
    IF parts = <<>> THEN <<>>
    ELSE (IF Strip(Head(parts)) = <<>> THEN <<>> ELSE <<Strip(Head(parts))>>)
         \o StripNonEmpty(Tail(parts))

\* The mutant: the packing forgets the chunk it was filling when the next part
\* does not fit.
RECURSIVE Pack_unflushed(_, _)
Pack_unflushed(sub_parts, current_chunk) ==
    IF sub_parts = <<>>
    THEN (IF current_chunk # <<>> THEN <<current_chunk>> ELSE <<>>)
    ELSE LET part == Head(sub_parts)
         IN  IF Len(current_chunk) + Len(part) + 1 <= MAX_CHUNK_CHARS
             THEN Pack_unflushed(Tail(sub_parts),
                                 IF current_chunk # <<>>
                                 THEN Strip(current_chunk \o <<" ">> \o part)
                                 ELSE part)
             ELSE Pack_unflushed(Tail(sub_parts), part)

\* The mutant: the packing tests the chunk it is filling against the budget,
\* not the chunk with the next part added.
RECURSIVE Pack_overfull(_, _)
Pack_overfull(sub_parts, current_chunk) ==
    IF sub_parts = <<>>
    THEN (IF current_chunk # <<>> THEN <<current_chunk>> ELSE <<>>)
    ELSE LET part == Head(sub_parts)
         IN  IF Len(current_chunk) + 1 <= MAX_CHUNK_CHARS
             THEN Pack_overfull(Tail(sub_parts),
                                IF current_chunk # <<>>
                                THEN Strip(current_chunk \o <<" ">> \o part)
                                ELSE part)
             ELSE (IF current_chunk # <<>> THEN <<current_chunk>> ELSE <<>>)
                  \o Pack_overfull(Tail(sub_parts), part)

\* The mutant: a part longer than the budget is cut at the budget.
RECURSIVE Pack_hard_split(_, _)
Pack_hard_split(sub_parts, current_chunk) ==
    IF sub_parts = <<>>
    THEN (IF current_chunk # <<>> THEN <<current_chunk>> ELSE <<>>)
    ELSE LET part == Head(sub_parts)
         IN  IF Len(part) > MAX_CHUNK_CHARS
             THEN (IF current_chunk # <<>> THEN <<current_chunk>> ELSE <<>>)
                  \o <<SubSeq(part, 1, MAX_CHUNK_CHARS)>>
                  \o Pack_hard_split(
                         <<SubSeq(part, MAX_CHUNK_CHARS + 1, Len(part))>>
                             \o Tail(sub_parts), <<>>)
             ELSE IF Len(current_chunk) + Len(part) + 1 <= MAX_CHUNK_CHARS
             THEN Pack_hard_split(Tail(sub_parts),
                                  IF current_chunk # <<>>
                                  THEN Strip(current_chunk \o <<" ">> \o part)
                                  ELSE part)
             ELSE (IF current_chunk # <<>> THEN <<current_chunk>> ELSE <<>>)
                  \o Pack_hard_split(Tail(sub_parts), part)

\* Lines 43-53: the greedy packing of the parts of one long sentence.
RECURSIVE Pack(_, _)
Pack(sub_parts, current_chunk) ==
    IF sub_parts = <<>>
    THEN (IF current_chunk # <<>> THEN <<current_chunk>> ELSE <<>>)
    ELSE LET part == Head(sub_parts)
         IN  IF Len(current_chunk) + Len(part) + 1 <= MAX_CHUNK_CHARS
             THEN Pack(Tail(sub_parts),
                       IF current_chunk # <<>>
                       THEN Strip(current_chunk \o <<" ">> \o part)
                       ELSE part)
             ELSE (IF current_chunk # <<>> THEN <<current_chunk>> ELSE <<>>)
                  \o Pack(Tail(sub_parts), part)

\* Lines 36-53: the chunks of the sentences, in order.
RECURSIVE ChunkSentences(_)
ChunkSentences(sentences) ==
    IF sentences = <<>> THEN <<>>
    ELSE LET sentence == Head(sentences)
         IN  (IF Len(sentence) <= MAX_CHUNK_CHARS
              THEN <<sentence>>
              ELSE Pack(SplitAfter(sentence, ClauseEnd), <<>>))
             \o ChunkSentences(Tail(sentences))

split_into_sentences(text) ==
    LET normalized == Normalize(text)
        sentences == StripNonEmpty(SplitAfter(normalized, SentenceEnd))
        chunks == ChunkSentences(sentences)
    IN  IF chunks # <<>> THEN chunks ELSE <<normalized>>

\* The texts the chunker is checked on: MaxSegments segments, each a word
\* (none, or one of WordLen or 2 * WordLen characters) followed by a separator.
\* Two long words exceed MAX_CHUNK_CHARS, three short ones with their
\* separators do not.
MaxSegments == 3
WordLen == 60

Words ==
    {<<>>, [i \in 1..WordLen |-> "a"], [i \in 1..(2 * WordLen) |-> "b"]}
Separators ==
    {<<>>, <<" ">>, <<",">>, <<",", " ">>, <<".", " ">>, <<";", "\n", EnDash, "\r", "[U+00A0]">>}

RECURSIVE TextsOf(_)
TextsOf(n) ==
    IF n = 0 THEN {<<>>}
    ELSE {w \o sep \o rest : w \in Words, sep \in Separators, rest \in TextsOf(n - 1)}

ChunkerTexts == TextsOf(MaxSegments)

(***************************************************************************)
(* tts_service.py: TTSService, the registry and the orchestrator.          *)
(* load_model and unload_model are functions from the state and the        *)
(* outcome of the runtime's constructor to what the call raises or         *)
(* returns, the registry it leaves and the calls it made to the runtime    *)
(* (events).                                                               *)
(***************************************************************************)
SAMPLE_RATE == 22050

DEFAULT_SPEAKERS == [en |-> "jenny", de |-> "thorsten"]

\* KaniTTS(model_path, device_map="cpu")
KaniTTS(model_key) == [model_path |-> MODELS[model_key].local_path, device_map |-> "cpu"]

NotRaised == "no exception"
UnknownModel == "ValueError: Unknown model"
NotDownloaded == "RuntimeError: Model is not downloaded"
FailedToLoad == "RuntimeError: Failed to load model"
EmptyText == "ValueError: Text cannot be empty"
FailedToGenerate == "RuntimeError: Failed to generate audio"

\* The mutant: load_model without the check of the downloaded predicate.
load_model_unchecked(model_key, kani_ok) ==
    LET same == [models |-> _models, current |-> _current_model_key]
    IN  IF model_key \notin DOMAIN MODELS
        THEN same @@ [raised |-> UnknownModel, returned |-> None, events |-> <<>>]
        ELSE IF model_key \in DOMAIN _models
        THEN [raised |-> NotRaised, returned |-> TRUE, events |-> <<>>,
              models |-> _models, current |-> model_key]
        ELSE IF kani_ok
        THEN [raised |-> NotRaised, returned |-> TRUE,
              events |-> <<[call |-> "KaniTTS", model_key |-> model_key]>>,
              models |-> (model_key :> KaniTTS(model_key)) @@ _models,
              current |-> model_key]
        ELSE same @@ [raised |-> FailedToLoad, returned |-> None,
                      events |-> <<[call |-> "KaniTTS", model_key |-> model_key]>>]

\* The mutant: load_model without the check of the registry.
load_model_reconstructing(model_key, kani_ok) ==
    LET same == [models |-> _models, current |-> _current_model_key]
    IN  IF model_key \notin DOMAIN MODELS
        THEN same @@ [raised |-> UnknownModel, returned |-> None, events |-> <<>>]
        ELSE IF ~is_model_downloaded(model_key)
        THEN same @@ [raised |-> NotDownloaded, returned |-> None, events |-> <<>>]
        ELSE IF kani_ok
        THEN [raised |-> NotRaised, returned |-> TRUE,
              events |-> <<[call |-> "KaniTTS", model_key |-> model_key]>>,
              models |-> (model_key :> KaniTTS(model_key)) @@ _models,
              current |-> model_key]
        ELSE same @@ [raised |-> FailedToLoad, returned |-> None,
                      events |-> <<[call |-> "KaniTTS", model_key |-> model_key]>>]

\* The mutant: load_model without the check of the key against the table.
load_model_no_key_check(model_key, kani_ok) ==
    LET same == [models |-> _models, current |-> _current_model_key]
    IN  IF ~is_model_downloaded(model_key)
        THEN same @@ [raised |-> NotDownloaded, returned |-> None, events |-> <<>>]
        ELSE IF model_key \in DOMAIN _models
        THEN [raised |-> NotRaised, returned |-> TRUE, events |-> <<>>,
              models |-> _models, current |-> model_key]
        ELSE IF kani_ok
        THEN [raised |-> NotRaised, returned |-> TRUE,
              events |-> <<[call |-> "KaniTTS", model_key |-> model_key]>>,
              models |-> (model_key :> KaniTTS(model_key)) @@ _models,
              current |-> model_key]
        ELSE same @@ [raised |-> FailedToLoad, returned |-> None,
                      events |-> <<[call |-> "KaniTTS", model_key |-> model_key]>>]

\* The mutant: load_model that keeps one handle, the one it constructed.
load_model_evicting(model_key, kani_ok) ==
    LET same == [models |-> _models, current |-> _current_model_key]
    IN  IF model_key \notin DOMAIN MODELS
        THEN same @@ [raised |-> UnknownModel, returned |-> None, events |-> <<>>]
        ELSE IF ~is_model_downloaded(model_key)
        THEN same @@ [raised |-> NotDownloaded, returned |-> None, events |-> <<>>]
        ELSE IF model_key \in DOMAIN _models
        THEN [raised |-> NotRaised, returned |-> TRUE, events |-> <<>>,
              models |-> _models, current |-> model_key]
        ELSE IF kani_ok
        THEN [raised |-> NotRaised, returned |-> TRUE,
              events |-> <<[call |-> "KaniTTS", model_key |-> model_key]>>,
              models |-> (model_key :> KaniTTS(model_key)),
              current |-> model_key]
        ELSE same @@ [raised |-> FailedToLoad, returned |-> None,
                      events |-> <<[call |-> "KaniTTS", model_key |-> model_key]>>]

\* TTSService.load_model; kani_ok: the constructor of the runtime returns.
load_model(model_key, kani_ok) ==
    LET same == [models |-> _models, current |-> _current_model_key]
    IN  IF model_key \notin DOMAIN MODELS
        THEN same @@ [raised |-> UnknownModel, returned |-> None, events |-> <<>>]
        ELSE IF ~is_model_downloaded(model_key)
        THEN same @@ [raised |-> NotDownloaded, returned |-> None, events |-> <<>>]
        ELSE IF model_key \in DOMAIN _models
        THEN [raised |-> NotRaised, returned |-> TRUE, events |-> <<>>,
              models |-> _models, current |-> model_key]
        ELSE IF kani_ok
        THEN [raised |-> NotRaised, returned |-> TRUE,
              events |-> <<[call |-> "KaniTTS", model_key |-> model_key]>>,
              models |-> (model_key :> KaniTTS(model_key)) @@ _models,
              current |-> model_key]
        ELSE same @@ [raised |-> FailedToLoad, returned |-> None,
                      events |-> <<[call |-> "KaniTTS", model_key |-> model_key]>>]

\* The mutant: unload_model that clears the marker whatever the registry holds.
unload_model_clearing(model_key) ==
    [raised |-> NotRaised, returned |-> model_key \in DOMAIN _models, events |-> <<>>,
     models |-> [k \in DOMAIN _models \ {model_key} |-> _models[k]],
     current |-> None]

\* The mutant: unload_model that removes the handle and leaves the marker.
unload_model_keeping_marker(model_key) ==
    IF model_key \in DOMAIN _models
    THEN [raised |-> NotRaised, returned |-> TRUE, events |-> <<>>,
          models |-> [k \in DOMAIN _models \ {model_key} |-> _models[k]],
          current |-> _current_model_key]
    ELSE [raised |-> NotRaised, returned |-> FALSE, events |-> <<>>,
          models |-> _models, current |-> _current_model_key]

\* TTSService.unload_model
unload_model(model_key) ==
    IF model_key \in DOMAIN _models
    THEN [raised |-> NotRaised, returned |-> TRUE, events |-> <<>>,
          models |-> [k \in DOMAIN _models \ {model_key} |-> _models[k]],
          current |-> IF _current_model_key = model_key THEN None
                      ELSE _current_model_key]
    ELSE [raised |-> NotRaised, returned |-> FALSE, events |-> <<>>,
          models |-> _models, current |-> _current_model_key]

\* speaker or self.DEFAULT_SPEAKERS.get(model_key)
speaker_id(speaker, model_key) ==
    IF speaker # None /\ speaker # "" THEN speaker
    ELSE IF model_key \in DOMAIN DEFAULT_SPEAKERS THEN DEFAULT_SPEAKERS[model_key]
    ELSE None

\* np.zeros(int(SAMPLE_RATE * 0.15)): audio is a sequence of segments, each
\* the samples of one chunk or a block of silence, with its number of samples.
silence == [of |-> "silence", samples |-> (SAMPLE_RATE * 15) \div 100]

\* Lines 160-171: the stitching.
RECURSIVE CombineParts(_, _)
CombineParts(audio_arrays, i) ==
    IF i > Len(audio_arrays) THEN <<>>
    ELSE <<audio_arrays[i]>>
         \o (IF i < Len(audio_arrays) THEN <<silence>> ELSE <<>>)
         \o CombineParts(audio_arrays, i + 1)

\* The mutant: a block of silence after every chunk, the last one too.
Combine_trailing_silence(audio_arrays) ==
    IF Len(audio_arrays) = 1 THEN <<audio_arrays[1]>>
    ELSE CombineParts(audio_arrays, 1) \o <<silence>>

Combine(audio_arrays) ==
    IF Len(audio_arrays) = 1 THEN <<audio_arrays[1]>> ELSE CombineParts(audio_arrays, 1)

(***************************************************************************)
(* The calls of the service.  last is the record of the latest call: its   *)
(* arguments, what the state was on entry (before), what it raised or      *)
(* returned, the calls it made to the runtime, in order (events), and the  *)
(* index of the chunk on which the model raised (fault_at, 0 for none).    *)
(* gen holds the locals of a generate call that is running; while it runs  *)
(* it holds the event loop, so no other call of the service starts.        *)
(***************************************************************************)
NoCall ==
    [op |-> "none", model_key |-> None, text |-> <<>>, speaker |-> None,
     before |-> [models |-> <<>>, current |-> None, files |-> {}, downloaded |-> FALSE,
                 transfer |-> "none"],
     raised |-> NotRaised, returned |-> None, events |-> <<>>, fault_at |-> 0,
     removed |-> FALSE]

IdleGen == [pc |-> "idle", chunks |-> <<>>, speaker_id |-> None, audio_arrays |-> <<>>]

\* A call of split_into_sentences(text): last records the text and the chunks.
Chunk(text) ==
    /\ last = NoCall
    /\ last' = [op |-> "split_into_sentences", text |-> text,
                chunks |-> split_into_sentences(text)]
    /\ UNCHANGED <<fs, dl, transfer, _models, _current_model_key, output_dir, gen>>

Before(model_key) ==
    [models |-> _models, current |-> _current_model_key, files |-> output_dir,
     downloaded |-> model_key \in DOMAIN MODELS /\ fs[model_key].exists
                    /\ fs[model_key].essential,
     transfer |-> IF transfer.key = model_key THEN transfer.state ELSE "none"]

\* The outcomes of the constructor of the runtime that a call can meet: it
\* returns, or raises; only a call that reaches the constructor meets one.
KaniOutcomes(model_key) ==
    IF model_key \in DOMAIN MODELS /\ is_model_downloaded(model_key)
       /\ model_key \notin DOMAIN _models
    THEN BOOLEAN ELSE {TRUE}

\* A call of load_model.  Line 84 is outside the try block of load_model:
\* what is_model_downloaded raises leaves the call, before anything is changed.
LoadModel(model_key) ==
    /\ gen.pc = "idle"
    /\ \E removed \in RemovedWhileRead(model_key) :
          IF removed
          THEN /\ fs' = [fs EXCEPT ![model_key] = NoDir]
               /\ last' = [NoCall EXCEPT !.op = "load_model", !.model_key = model_key,
                                         !.before = Before(model_key),
                                         !.raised = FileNotFound,
                                         !.removed = TRUE]
               /\ UNCHANGED <<_models, _current_model_key>>
          ELSE /\ UNCHANGED fs
               /\ \E kani_ok \in KaniOutcomes(model_key) :
                     LET r == load_model(model_key, kani_ok)
                     IN  /\ _models' = r.models
                         /\ _current_model_key' = r.current
                         /\ last' = [NoCall EXCEPT
                                        !.op = "load_model", !.model_key = model_key,
                                        !.before = Before(model_key),
                                        !.raised = r.raised, !.returned = r.returned,
                                        !.events = r.events]
    /\ UNCHANGED <<dl, transfer, output_dir, gen>>

UnloadModel(model_key) ==
    /\ gen.pc = "idle"
    /\ LET r == unload_model(model_key)
       IN  /\ _models' = r.models
           /\ _current_model_key' = r.current
           /\ last' = [NoCall EXCEPT !.op = "unload_model", !.model_key = model_key,
                                     !.before = Before(model_key),
                                     !.raised = r.raised, !.returned = r.returned,
                                     !.events = r.events]
    /\ UNCHANGED <<fs, dl, transfer, output_dir, gen>>

\* The environment of the service.  Local storage is not owned by the process:
\* the directory of a model is removed from outside it (is_model_downloaded
\* reads the directory again at every call for that reason).  A call of the
\* service reads local storage at its start only, so a removal during a
\* generate is taken at its end.
ArtifactsRemoved(model_key) ==
    /\ gen.pc = "idle"
    /\ fs[model_key].exists
    /\ fs' = [fs EXCEPT ![model_key] = NoDir]
    /\ UNCHANGED <<dl, transfer, tts>>

\* The inputs of generate and the outcomes of the runtime.
Texts ==
    {<<>>,
     <<" ", "\r", "[U+2028]">>,
     <<"H", "i", ".">>,
     <<"H", "i", ".", " ", " ", "Y", "o", "!">>,
     <<"A", ".", " ", "B", "?", "\n", "C">>}
Speakers == {None, "", "katie"}
Filenames == {"output_0000000a.wav", "output_0000000b.wav"}
AudioLengths == {1, 2}
SynthOutcomes ==
    {[raised |-> TRUE, samples |-> 0]}
    \cup {[raised |-> FALSE, samples |-> n] : n \in AudioLengths}
\* save_audio returns, or raises leaving no file, or raises leaving a file.
SaveOutcomes == {"ok", "raise, no file", "raise, file left"}

\* The mutant: generate that loads the model before it looks at the text.
GenerateStart_load_first(text, model_key, speaker) ==
    /\ gen.pc = "idle"
    /\ \E kani_ok \in KaniOutcomes(model_key) :
          LET call == [NoCall EXCEPT !.op = "generate", !.model_key = model_key,
                                     !.text = text, !.speaker = speaker,
                                     !.before = Before(model_key)]
              loaded == IF model_key \notin DOMAIN _models
                        THEN load_model(model_key, kani_ok)
                        ELSE [raised |-> NotRaised, events |-> <<>>,
                              models |-> _models, current |-> _current_model_key]
          IN  /\ _models' = loaded.models
              /\ _current_model_key' = loaded.current
              /\ IF loaded.raised # NotRaised
                 THEN /\ last' = [call EXCEPT !.raised = loaded.raised,
                                              !.events = loaded.events]
                      /\ gen' = IdleGen
                 ELSE IF Strip(text) = <<>>
                 THEN /\ last' = [call EXCEPT !.raised = EmptyText,
                                              !.events = loaded.events]
                      /\ gen' = IdleGen
                 ELSE /\ last' = [call EXCEPT !.events = loaded.events]
                      /\ gen' = [pc |-> "synthesize",
                                 chunks |-> split_into_sentences(text),
                                 speaker_id |-> speaker_id(speaker, model_key),
                                 audio_arrays |-> <<>>]
    /\ UNCHANGED <<fs, dl, transfer, output_dir>>

\* TTSService.generate, lines 135-151: the check of the text, the lazy load,
\* the speaker and the chunks.  The lazy load of line 140 is outside the try
\* block: what load_model raises leaves generate as it is.
GenerateStart(text, model_key, speaker) ==
    /\ gen.pc = "idle"
    /\ LET call == [NoCall EXCEPT !.op = "generate", !.model_key = model_key,
                                  !.text = text, !.speaker = speaker,
                                  !.before = Before(model_key)]
           lazy == Strip(text) # <<>> /\ model_key \notin DOMAIN _models
       IN  \E removed \in IF lazy THEN RemovedWhileRead(model_key) ELSE {FALSE} :
              IF removed
              THEN /\ fs' = [fs EXCEPT ![model_key] = NoDir]
                   /\ last' = [call EXCEPT !.raised = FileNotFound,
                                           !.removed = TRUE]
                   /\ UNCHANGED <<_models, _current_model_key, gen>>
              ELSE /\ UNCHANGED fs
                   /\ \E kani_ok \in IF lazy THEN KaniOutcomes(model_key) ELSE {TRUE} :
                         LET loaded ==
                                 IF model_key \notin DOMAIN _models
                                 THEN load_model(model_key, kani_ok)
                                 ELSE [raised |-> NotRaised, events |-> <<>>,
                                       models |-> _models,
                                       current |-> _current_model_key]
                         IN  IF text = <<>> \/ Strip(text) = <<>>
                             THEN /\ last' = [call EXCEPT !.raised = EmptyText]
                                  /\ UNCHANGED <<_models, _current_model_key, gen>>
                             ELSE /\ _models' = loaded.models
                                  /\ _current_model_key' = loaded.current
                                  /\ IF loaded.raised # NotRaised
                                     THEN /\ last' = [call EXCEPT
                                                         !.raised = loaded.raised,
                                                         !.events = loaded.events]
                                          /\ gen' = IdleGen
                                     ELSE /\ last' = [call EXCEPT
                                                         !.events = loaded.events]
                                          /\ gen' =
                                                [pc |-> "synthesize",
                                                 chunks |-> split_into_sentences(text),
                                                 speaker_id |->
                                                     speaker_id(speaker, model_key),
                                                 audio_arrays |-> <<>>]
    /\ UNCHANGED <<dl, transfer, output_dir>>

\* The mutant: a fault of the model on a chunk is swallowed, and the chunks
\* synthesized so far are saved.
GenerateChunk_partial ==
    /\ gen.pc = "synthesize"
    /\ LET i == Len(gen.audio_arrays) + 1
           ev == [call |-> "model", index |-> i, chunk |-> gen.chunks[i],
                  speaker_id |-> gen.speaker_id]
       IN  \E outcome \in SynthOutcomes :
              /\ last' = [last EXCEPT !.events = Append(@, ev),
                                      !.fault_at = IF outcome.raised THEN i ELSE @]
              /\ IF outcome.raised
                 THEN gen' = [gen EXCEPT !.pc = IF i = 1 THEN "idle" ELSE "save"]
                 ELSE gen' = [gen EXCEPT
                                 !.audio_arrays =
                                     Append(@, [of |-> "chunk", index |-> i,
                                                samples |-> outcome.samples]),
                                 !.pc = IF i = Len(gen.chunks) THEN "save" ELSE @]
    /\ UNCHANGED <<fs, dl, transfer, _models, _current_model_key, output_dir>>

\* The mutant: the chunks are synthesized from the last to the first.
GenerateChunk_reverse_order ==
    /\ gen.pc = "synthesize"
    /\ LET i == Len(gen.audio_arrays) + 1
           ev == [call |-> "model", index |-> i,
                  chunk |-> gen.chunks[Len(gen.chunks) + 1 - i],
                  speaker_id |-> gen.speaker_id]
       IN  \E outcome \in SynthOutcomes :
              IF outcome.raised
              THEN /\ last' = [last EXCEPT !.events = Append(@, ev),
                                           !.raised = FailedToGenerate,
                                           !.fault_at = i]
                   /\ gen' = IdleGen
              ELSE /\ last' = [last EXCEPT !.events = Append(@, ev)]
                   /\ gen' = [gen EXCEPT
                                 !.audio_arrays =
                                     Append(@, [of |-> "chunk", index |-> i,
                                                samples |-> outcome.samples]),
                                 !.pc = IF i = Len(gen.chunks) THEN "save" ELSE @]
    /\ UNCHANGED <<fs, dl, transfer, _models, _current_model_key, output_dir>>

\* Lines 155-158, 186-188: the model is called on the next chunk.
GenerateChunk ==
    /\ gen.pc = "synthesize"
    /\ LET i == Len(gen.audio_arrays) + 1
           ev == [call |-> "model", index |-> i, chunk |-> gen.chunks[i],
                  speaker_id |-> gen.speaker_id]
       IN  \E outcome \in SynthOutcomes :
              IF outcome.raised
              THEN /\ last' = [last EXCEPT !.events = Append(@, ev),
                                           !.raised = FailedToGenerate,
                                           !.fault_at = i]
                   /\ gen' = IdleGen
              ELSE /\ last' = [last EXCEPT !.events = Append(@, ev)]
                   /\ gen' = [gen EXCEPT
                                 !.audio_arrays =
                                     Append(@, [of |-> "chunk", index |-> i,
                                                samples |-> outcome.samples]),
                                 !.pc = IF i = Len(gen.chunks) THEN "save" ELSE @]
    /\ UNCHANGED <<fs, dl, transfer, _models, _current_model_key, output_dir>>

\* Lines 160-188: the audio is stitched, saved under a new name and read back.
GenerateSave ==
    /\ gen.pc = "save"
    /\ LET combined_audio == Combine(gen.audio_arrays)
       IN  \E filename \in Filenames, save \in SaveOutcomes :
              LET ev == [call |-> "save_audio", audio |-> combined_audio,
                         filename |-> filename]
              IN  IF save = "ok"
                  THEN /\ output_dir' = output_dir \cup {filename}
                       /\ last' = [last EXCEPT
                                      !.events = Append(@, ev),
                                      !.returned = [audio_bytes |-> combined_audio,
                                                    filename |-> filename]]
                  ELSE /\ output_dir' = IF save = "raise, file left"
                                        THEN output_dir \cup {filename}
                                        ELSE output_dir
                       /\ last' = [last EXCEPT !.events = Append(@, ev),
                                               !.raised = FailedToGenerate]
    /\ gen' = IdleGen
    /\ UNCHANGED <<fs, dl, transfer, _models, _current_model_key>>

(***************************************************************************)
(* main.py: DELETE /api/audio/{filename}, the one operation that removes a  *)
(* file of OUTPUT_DIR.  The endpoints are coroutines of the event loop.     *)
(***************************************************************************)
InvalidFilename == "HTTPException 400: Invalid filename"

\* A file name is one value; these are the names of the requests that hold
\* ".." or "/".
TraversalNames == {"../output_0000000a.wav"}

\* The names that pass the test of line 216 and denote a directory whatever
\* OUTPUT_DIR holds: OUTPUT_DIR / "." is OUTPUT_DIR itself.
DirectoryNames == {"."}

\* The names a request to delete can carry.
DeleteNames == Filenames \cup TraversalNames \cup DirectoryNames

\* What os.remove raises for a path that is a directory.
IsADirectory == "IsADirectoryError"

\* OUTPUT_DIR without the path of a name: without the one entry, or, for a name
\* that denotes OUTPUT_DIR itself, without anything.
Without(filename) ==
    IF filename \in DirectoryNames THEN {} ELSE output_dir \ {filename}

\* Line 221: audio_path.exists().  OUTPUT_DIR is storage that other processes
\* write too: it is made when config is imported (config.py:10), and a name of
\* DirectoryNames exists unless another process has removed OUTPUT_DIR since.
PathExists(filename) ==
    IF filename \in DirectoryNames THEN BOOLEAN ELSE {filename \in output_dir}

\* Line 222: os.remove of a path that existed at line 221.  The path is a
\* file, which is removed; or a directory (always, for a name of
\* DirectoryNames), for which os.remove raises and which stays; or it was
\* removed by another process after line 221, for which os.remove raises
\* FileNotFoundError.
RemoveOutcomes(filename) ==
    IF filename \in DirectoryNames
    THEN {IsADirectory, FileNotFound}
    ELSE {"removed", IsADirectory, FileNotFound}

\* main.delete_audio.  Line 222 is in no try block: what os.remove raises leaves
\* the coroutine and nothing is returned.
DeleteAudio(filename) ==
    /\ LoopIsFree
    /\ LET call == [NoCall EXCEPT !.op = "delete_audio", !.text = filename,
                                  !.before = Before(None)]
       IN  IF filename \in TraversalNames
           THEN /\ last' = [call EXCEPT !.raised = InvalidFilename]
                /\ UNCHANGED output_dir
           ELSE \E exists \in PathExists(filename) :
                   IF exists
                   THEN \E removal \in RemoveOutcomes(filename) :
                           IF removal = "removed"
                           THEN /\ output_dir' = Without(filename)
                                /\ last' = [call EXCEPT
                                               !.returned =
                                                   [success |-> TRUE,
                                                    message |-> "File deleted"]]
                           ELSE /\ output_dir' = IF removal = FileNotFound
                                                 THEN Without(filename)
                                                 ELSE output_dir
                                /\ last' = [call EXCEPT !.raised = removal]
                   ELSE /\ output_dir' = IF filename \in DirectoryNames
                                         THEN Without(filename)
                                         ELSE output_dir
                        /\ last' = [call EXCEPT
                                       !.returned = [success |-> FALSE,
                                                     message |-> "File not found"]]
    /\ UNCHANGED <<fs, dl, transfer, _models, _current_model_key, gen>>

(***************************************************************************)
(* Specification                                                           *)
(***************************************************************************)
vars == <<fs, dl, transfer, _models, _current_model_key, output_dir, last, gen>>

Init ==
    /\ fs \in [DOMAIN MODELS -> {NoDir, FullDir}]
    /\ dl = IdleStream
    /\ transfer = NoTransfer
    /\ _models = <<>>
    /\ _current_model_key = None
    /\ output_dir = {}
    /\ last = NoCall
    /\ gen = IdleGen

\* The progress stream and its transfer.
NextDownload ==
    \/ \E k \in ModelKeys : StartDownload(k)
    \/ AwaitConnection
    \/ FetchStart
    \/ FetchDone
    \/ FetchFault
    \/ Launch
    \/ Poll
    \/ PollYield
    \/ PollAgain
    \/ Complete
    \/ Fail
    \/ Finish
    \/ Disconnect
    \/ TransferWrite
    \/ TransferResolve

\* The calls of the service, and its environment.
NextTTS ==
    \/ \E k \in DOMAIN MODELS : ArtifactsRemoved(k)
    \/ \E k \in ModelKeys : LoadModel(k)
    \/ \E k \in ModelKeys : UnloadModel(k)
    \/ \E text \in Texts, k \in ModelKeys, speaker \in Speakers :
          GenerateStart(text, k, speaker)
    \/ GenerateChunk
    \/ GenerateSave
    \/ \E filename \in DeleteNames : DeleteAudio(filename)

\* The service together with the part of a download that writes local storage
\* (the stream up to the launch of the transfer, and the transfer), on the
\* model key "en" and on a key that is not in the table.  The polling steps of
\* the stream write only dl, which no call of the service reads.
Next ==
    \/ \E k \in {"en", "xx"} : StartDownload(k)
    \/ AwaitConnection
    \/ FetchStart
    \/ FetchDone
    \/ Launch
    \/ Finish
    \/ Disconnect
    \/ TransferWrite
    \/ TransferResolve
    \/ \E k \in {"en", "xx"} : LoadModel(k)
    \/ \E k \in {"en", "xx"} : UnloadModel(k)
    \/ \E text \in {<<" ", "\r", "[U+2028]">>, <<"H", "i", ".">>}, k \in {"en", "xx"} :
          GenerateStart(text, k, None)
    \/ GenerateChunk
    \/ GenerateSave
    \/ \E filename \in DeleteNames : DeleteAudio(filename)

SpecDownload == Init /\ [][NextDownload]_vars

\* The chunker alone, called once on a text of ChunkerTexts; it reads nothing
\* of local storage, which is left empty.
InitChunker == Init /\ fs = [k \in DOMAIN MODELS |-> NoDir]

NextChunker == last = NoCall /\ \E text \in ChunkerTexts : Chunk(text)

SpecChunker == InitChunker /\ [][NextChunker]_vars

\* The steps of the generator that wait for nothing but the event loop: the
\* loop resumes a generator that is ready for as long as its consumer iterates.
\* The returns of the metadata fetch and of the transfer are not among them.
StreamStep ==
    \/ AwaitConnection
    \/ FetchStart
    \/ Launch
    \/ Poll
    \/ PollYield
    \/ PollAgain
    \/ Complete
    \/ Fail
    \/ Finish

\* A stream reads and writes the directory of its own key only, and the two
\* descriptors are handled alike: the directory of "de" starts complete, that
\* of "en" absent or complete.
InitDownloadFair == Init /\ fs["de"] = FullDir

SpecDownloadFair == InitDownloadFair /\ [][NextDownload]_vars /\ WF_vars(StreamStep)

SpecTTS == Init /\ [][NextTTS]_vars

Spec == Init /\ [][Next]_vars

(***************************************************************************)
(* Properties                                                              *)
(***************************************************************************)
\* The indices of the snapshots yielded so far whose status is terminal.
TerminalSnapshots == {i \in 1..Len(dl.out) : dl.out[i].status \in Terminal}

\* The snapshots that carry the fields of a DownloadProgress (all but the one
\* of an unknown key).
ProgressSnapshots == {i \in 1..Len(dl.out) : "progress_percent" \in DOMAIN dl.out[i]}

\* C1: an invocation of the progress stream yields at most one terminal
\* snapshot, a terminal snapshot is the last snapshot of the stream, the status
\* of the progress is the status last yielded (so it never leaves a terminal
\* state), and an invocation that ran to its end, whatever its case, yielded
\* exactly one terminal snapshot.
C1_OneTerminalSnapshotLast ==
    /\ Cardinality(TerminalSnapshots) <= 1
    /\ TerminalSnapshots \subseteq {Len(dl.out)}
    /\ dl.progress # NoProgress => dl.out[Len(dl.out)].status = dl.progress.status
    /\ dl.pc \in {"yield_final", "done"} => Cardinality(TerminalSnapshots) = 1
    /\ TerminalSnapshots # {} => dl.pc \in {"yield_final", "done", "closed"}
    /\ dl.pc # "raised"

\* C1, the invocations for which it holds: those in which the check of the
\* artifacts at line 117 did not raise.
C1_OneTerminalSnapshotUnlessRaised ==
    dl.pc # "raised" =>
        /\ Cardinality(TerminalSnapshots) <= 1
        /\ TerminalSnapshots \subseteq {Len(dl.out)}
        /\ dl.progress # NoProgress => dl.out[Len(dl.out)].status = dl.progress.status
        /\ dl.pc \in {"yield_final", "done"} => Cardinality(TerminalSnapshots) = 1
        /\ TerminalSnapshots # {} => dl.pc \in {"yield_final", "done", "closed"}

\* C1, witness: a stream whose transfer raised has ended, after polling
\* snapshots, with its error snapshot.
C1_Witness ==
    /\ dl.pc = "done"
    /\ transfer.state \in Faults
    /\ Len(dl.out) >= 4
    /\ dl.out[Len(dl.out)].status = "error"

\* C2: when the artifacts of the model existed at the call, the stream yields
\* exactly one snapshot, of status completed, never one of status downloading,
\* makes no metadata fetch and launches no transfer.
C2_DownloadedShortCut ==
    (dl.pc # "idle" /\ dl.was_downloaded) =>
        /\ Len(dl.out) = 1
        /\ dl.out[1].status = "completed"
        /\ \A i \in 1..Len(dl.out) : dl.out[i].status # "downloading"
        /\ dl.fetch = "none"
        /\ transfer.state = "none"
        /\ dl.pc \in {"yield_final", "done", "closed"}

\* C2, the invocations for which it holds: those in which the check of the
\* artifacts at line 117 did not raise.
C2_DownloadedShortCutUnlessRaised ==
    (dl.pc \notin {"idle", "raised"} /\ dl.was_downloaded) =>
        /\ Len(dl.out) = 1
        /\ dl.out[1].status = "completed"
        /\ dl.fetch = "none"
        /\ transfer.state = "none"
        /\ dl.pc \in {"yield_final", "done", "closed"}

\* C2, witness: a stream called on a downloaded model has ended.
C2_Witness == dl.pc = "done" /\ dl.was_downloaded /\ dl.key \in DOMAIN MODELS

\* A call of the service made the runtime construct a handle.
Constructs(call) == \E i \in 1..Len(call.events) : call.events[i].call = "KaniTTS"

\* C3: no handle for a model key is constructed while the transfer of a
\* download of that key, begun without the artifacts, is unresolved.
C3_NoHandleDuringTransfer ==
    ~(/\ last.op \in {"load_model", "generate"}
      /\ Constructs(last)
      /\ last.before.transfer = "running"
      /\ transfer.key = last.model_key
      /\ ~dl.was_downloaded)

\* C4: the registry maps a key to at most one handle, the one constructed for
\* its descriptor; a call constructs at most one handle, and none for a key that
\* has one; load_model on a resident key returns True, constructs nothing and
\* leaves the registry as it was; after a load_model that returned, the key is
\* resident.
C4_OneHandlePerKey ==
    /\ Cardinality({i \in 1..Len(last.events) : last.events[i].call = "KaniTTS"}) <= 1
    /\ Constructs(last) => last.model_key \notin DOMAIN last.before.models
    /\ (/\ last.op = "load_model"
        /\ last.model_key \in DOMAIN last.before.models) =>
          /\ last.raised = NotRaised
          /\ last.returned = TRUE
          /\ last.events = <<>>
          /\ _models = last.before.models
    /\ (last.op = "load_model" /\ last.raised = NotRaised) =>
          /\ last.model_key \in DOMAIN _models
          /\ Constructs(last) <=> last.model_key \notin DOMAIN last.before.models
    /\ DOMAIN _models \subseteq DOMAIN MODELS
    /\ \A k \in DOMAIN _models : _models[k] = KaniTTS(k)

\* C4, what holds of every call: one handle per key at most, at most one
\* construction per call and none for a resident key, and load_model on a
\* resident key leaves the registry as it was and constructs nothing whether it
\* returns or raises; it returns True when the artifacts of the key are in
\* local storage from the entry of the call to its return, and raises
\* otherwise (the check of line 84 precedes the check of line 88).
C4_ResidentLoadKeepsRegistry ==
    /\ Cardinality({i \in 1..Len(last.events) : last.events[i].call = "KaniTTS"}) <= 1
    /\ Constructs(last) => last.model_key \notin DOMAIN last.before.models
    /\ (/\ last.op = "load_model"
        /\ last.model_key \in DOMAIN last.before.models) =>
          /\ last.events = <<>>
          /\ _models = last.before.models
          /\ IF last.removed THEN last.raised = FileNotFound
             ELSE IF last.before.downloaded
             THEN last.raised = NotRaised /\ last.returned = TRUE
             ELSE last.raised = NotDownloaded
    /\ (last.op = "load_model" /\ last.raised = NotRaised) =>
          /\ last.model_key \in DOMAIN _models
          /\ Constructs(last) <=> last.model_key \notin DOMAIN last.before.models
    /\ DOMAIN _models \subseteq DOMAIN MODELS
    /\ \A k \in DOMAIN _models : _models[k] = KaniTTS(k)

\* C4, the case of a load that follows a load: load_model was called on the
\* key that the call before it had loaded, and is still resident.
C4_Witness ==
    /\ last.op = "load_model"
    /\ last.model_key \in DOMAIN last.before.models
    /\ last.before.current = last.model_key
    /\ last.before.downloaded
    /\ last.returned = TRUE
    /\ last.model_key \in DOMAIN _models

\* C5: generate with a text that is not blank, on a model of the table that is
\* not downloaded, raises the not-downloaded error and does nothing else,
\* whatever the registry held: no call of the runtime, no file, the registry and
\* the marker as they were.
C5_GenerateNotDownloaded ==
    (/\ last.op = "generate"
     /\ last.model_key \in DOMAIN MODELS
     /\ Strip(last.text) # <<>>
     /\ ~last.before.downloaded) =>
        /\ last.raised = NotDownloaded
        /\ last.returned = None
        /\ last.events = <<>>
        /\ gen.pc = "idle"
        /\ output_dir = last.before.files
        /\ _models = last.before.models
        /\ _current_model_key = last.before.current

\* C6: when the model raises on a chunk, generate ends there with the
\* generation error: nothing is returned, save_audio is not called and
\* OUTPUT_DIR holds the files it held on entry.
C6_GenerateAtomic ==
    (last.op = "generate" /\ last.fault_at > 0) =>
        /\ gen.pc = "idle"
        /\ last.raised = FailedToGenerate
        /\ last.returned = None
        /\ \A i \in 1..Len(last.events) : last.events[i].call # "save_audio"
        /\ output_dir = last.before.files

\* C6, witness: the model raised on the last of three chunks, after the first
\* two were synthesized.
C6_Witness ==
    /\ last.op = "generate"
    /\ last.fault_at = Len(split_into_sentences(last.text))
    /\ last.fault_at >= 3
    /\ gen.pc = "idle"

\* C7: a transfer that is running stays running in every step of the stream
\* and of its consumer; only the transfer itself resolves it, to success or to
\* a fault.
C7_TransferNotCancelled ==
    [][transfer.state = "running" =>
          \/ transfer'.state = "running"
          \/ transfer'.state \in {"ok"} \cup Faults /\ dl' = dl]_vars

\* C7, witness: the consumer disconnected while the transfer was running, and
\* the transfer went on to write files and to succeed.
C7_Witness ==
    /\ dl.pc = "closed"
    /\ dl.transfer_at_close = "running"
    /\ transfer.state = "ok"

\* The message the three categories of fault are to be reported with.
CategoryMessage(e) ==
    CASE e = "GatedRepoError" -> AuthRequiredMessage
      [] e = "RepositoryNotFoundError" -> NotFoundMessage
      [] OTHER -> str(e)

\* C8: a fault of the metadata fetch or of the transfer is not raised to the
\* consumer (an exception that reaches the consumer was raised before either
\* began): the stream ends with one snapshot of status error, the only
\* terminal one, whose message is the message of the category of the fault.
C8_FaultReported ==
    /\ dl.pc = "raised" =>
          dl.fault = None /\ dl.fetch = "none" /\ transfer.state = "none"
    /\ dl.fault # None =>
          /\ dl.pc \in {"yield_final", "done", "closed"}
          /\ dl.out[Len(dl.out)].status = "error"
          /\ dl.out[Len(dl.out)].error_message = CategoryMessage(dl.fault)
          /\ TerminalSnapshots = {Len(dl.out)}
    /\ Cardinality({CategoryMessage(e) : e \in Faults}) = Cardinality(Faults)

\* C8, witness: a transfer that raised the gated-repository fault was reported.
C8_Witness ==
    /\ dl.fault = "GatedRepoError"
    /\ transfer.state = "GatedRepoError"
    /\ dl.pc = "done"

\* C9: in every snapshot progress_percent is within [0, 100] (in tenths) and is
\* 0 when total_size is 0; the property itself is a fraction with a positive
\* denominator and a value within [0, 100].
C9_PercentInRange ==
    /\ \A i \in ProgressSnapshots :
          /\ dl.out[i].progress_percent >= 0
          /\ dl.out[i].progress_percent <= 1000
          /\ dl.out[i].total_size = 0 => dl.out[i].progress_percent = 0
    /\ dl.progress # NoProgress =>
          LET q == progress_percent(dl.progress)
          IN  q[2] > 0 /\ q[1] >= 0 /\ q[1] <= 100 * q[2]

\* C9, witness: a snapshot with files on disk and a total of 0, and the same
\* stream with a total of 0 yielded a snapshot whose downloaded_size exceeds it.
C9_Witness ==
    \E i \in ProgressSnapshots :
        /\ dl.out[i].total_size = 0
        /\ dl.out[i].downloaded_size > dl.out[i].total_size

\* C9, second witness: downloaded_size exceeds a total that is not 0.
C9_WitnessCapped ==
    \E i \in ProgressSnapshots :
        /\ dl.out[i].total_size > 0
        /\ dl.out[i].downloaded_size > dl.out[i].total_size
        /\ dl.out[i].progress_percent = 1000

\* C10: between two consecutive snapshots of status downloading with the same
\* total_size, progress_percent does not decrease.
C10_PercentMonotone ==
    \A i \in 1..(Len(dl.out) - 1) :
        (/\ dl.out[i].status = "downloading"
         /\ dl.out[i + 1].status = "downloading"
         /\ dl.out[i].total_size = dl.out[i + 1].total_size) =>
            dl.out[i].progress_percent <= dl.out[i + 1].progress_percent

\* The transfer returned or raised.
Resolved == transfer.state \in {"ok"} \cup Faults

\* The stream has ended: the generator returned after a terminal snapshot, its
\* last, or its consumer closed it.
StreamEnded ==
    \/ dl.pc = "closed"
    \/ dl.pc = "done" /\ TerminalSnapshots = {Len(dl.out)}

\* C11: under fairness of the steps of the generator, a download of a model
\* that was not downloaded ends once the metadata fetch has raised or the
\* transfer has resolved: the terminal snapshot is yielded and the generator
\* returns (or its consumer closes it), and the polling loop does not go on.
C11_ResolvedStreamEnds ==
    (~dl.was_downloaded /\ dl.key \in DOMAIN MODELS /\ (dl.fault # None \/ Resolved))
        ~> StreamEnded

\* C11, witness: a transfer that returned after the last polling snapshot the
\* model keeps, and the stream ended with a completed snapshot.
C11_Witness ==
    /\ dl.pc = "done"
    /\ transfer.state = "ok"
    /\ dl.polls = MaxPolls
    /\ dl.out[Len(dl.out)].status = "completed"

\* C12: unload_model on a key that is not resident returns False and changes
\* nothing: the registry and the marker are what they were, no call of the
\* runtime is made and no file is written.
C12_UnloadAbsentNoOp ==
    (last.op = "unload_model" /\ last.model_key \notin DOMAIN last.before.models) =>
        /\ last.raised = NotRaised
        /\ last.returned = FALSE
        /\ last.events = <<>>
        /\ _models = last.before.models
        /\ _current_model_key = last.before.current
        /\ output_dir = last.before.files

\* C12, witness: unload_model of a key of the table that is not resident, while
\* the other key is resident and is the current one.
C12_Witness ==
    /\ last.op = "unload_model"
    /\ last.model_key \in DOMAIN MODELS
    /\ last.model_key \notin DOMAIN last.before.models
    /\ last.before.current \in DOMAIN last.before.models
    /\ last.returned = FALSE

\* C14: generate with a text that is empty or blank raises the empty-text error
\* before anything else: no load_model, no handle, the registry, the marker and
\* OUTPUT_DIR as they were, whatever the model key, downloaded or not, resident
\* or not.
C14_EmptyTextFirst ==
    (last.op = "generate" /\ Strip(last.text) = <<>>) =>
        /\ last.raised = EmptyText
        /\ last.returned = None
        /\ last.events = <<>>
        /\ gen.pc = "idle"
        /\ _models = last.before.models
        /\ _current_model_key = last.before.current
        /\ output_dir = last.before.files

\* C14, witness: generate with a blank text that is not empty, on a model that
\* is downloaded and not resident (a lazy load would have constructed a handle).
C14_Witness ==
    /\ last.op = "generate"
    /\ last.text # <<>>
    /\ Strip(last.text) = <<>>
    /\ last.before.downloaded
    /\ last.model_key \notin DOMAIN last.before.models
    /\ last.raised = EmptyText

\* The number of samples of a sequence of segments.
RECURSIVE Samples(_)
Samples(audio) ==
    IF audio = <<>> THEN 0 ELSE Head(audio).samples + Samples(Tail(audio))

\* The audio handed to save_audio by the call that is recorded in last.
SavedAudio(call) == call.events[Len(call.events)].audio

\* C15: the audio stitched from N >= 1 chunks has sum(len(chunk_i)) +
\* (N - 1) * 3307 samples (3307 = int(22050 * 0.15)): segment 2i - 1 is the
\* audio of chunk i, segment 2i, for i < N, is a block of silence of 3307
\* samples, and there is nothing before the first chunk or after the last.
C15_Stitching ==
    [][gen.pc = "save" =>
          LET audio_arrays == gen.audio_arrays
              N == Len(audio_arrays)
              saved == SavedAudio(last')
          IN  /\ N >= 1
              /\ Len(saved) = 2 * N - 1
              /\ \A i \in 1..N : saved[2 * i - 1] = audio_arrays[i]
              /\ \A i \in 1..(N - 1) :
                    saved[2 * i].of = "silence" /\ saved[2 * i].samples = 3307
              /\ Samples(saved) = Samples(audio_arrays) + (N - 1) * 3307]_vars

\* C15, witness: three chunks of audio, not all of one length, were stitched
\* and saved.
C15_Witness ==
    /\ last.op = "generate"
    /\ last.raised = NotRaised
    /\ gen.pc = "idle"
    /\ Len(last.events) = 4
    /\ last.events[4].call = "save_audio"
    /\ Len(last.returned.audio_bytes) = 5
    /\ last.returned.audio_bytes[1].samples # last.returned.audio_bytes[3].samples
    /\ Samples(last.returned.audio_bytes) = 1 + 2 + 2 + 2 * 3307

\* C13: an operation on a key that is not in the table fails at once.
\* load_model raises the unknown-model error, unload_model returns False,
\* generate raises (the empty-text error for a blank text, else the
\* unknown-model error); none of them calls the runtime, writes a file or
\* changes the registry or the marker.  The progress stream yields the one
\* snapshot of the unknown model, of status error, and starts neither the
\* metadata fetch nor a transfer.
C13_UnknownKeyFailsFast ==
    /\ (/\ last.op \in {"load_model", "unload_model", "generate"}
        /\ last.model_key \notin DOMAIN MODELS) =>
          /\ last.op = "load_model" => last.raised = UnknownModel
          /\ last.op = "unload_model" =>
                last.raised = NotRaised /\ last.returned = FALSE
          /\ last.op = "generate" =>
                last.raised = (IF Strip(last.text) = <<>> THEN EmptyText
                               ELSE UnknownModel)
          /\ last.op # "unload_model" => last.returned = None
          /\ last.events = <<>>
          /\ gen.pc = "idle"
          /\ _models = last.before.models
          /\ _current_model_key = last.before.current
          /\ output_dir = last.before.files
    /\ (dl.pc # "idle" /\ dl.key \notin DOMAIN MODELS) =>
          /\ dl.out = <<UnknownModelSnapshot>>
          /\ dl.pc \in {"yield_final", "done", "closed"}
          /\ dl.fetch = "none"
          /\ transfer = NoTransfer
          /\ \A k \in DOMAIN MODELS : fs[k].files <= 1
    /\ DOMAIN _models \subseteq DOMAIN MODELS

\* C13, witness: with the model "en" resident, a download of the unknown key has
\* ended and generate was then called on the unknown key with a text.
C13_Witness ==
    /\ dl.key \notin DOMAIN MODELS
    /\ dl.pc = "done"
    /\ last.op = "generate"
    /\ last.model_key \notin DOMAIN MODELS
    /\ last.raised = UnknownModel
    /\ DOMAIN last.before.models # {}

\* A call of the chunker is recorded in last.
Chunked == last.op = "split_into_sentences"

\* Position i of text is a character of marks that whitespace follows.
BoundaryAt(text, i, marks) ==
    i < Len(text) /\ text[i] \in marks /\ text[i + 1] \in Whitespace

\* The single spaces of a text that follow a character of marks.
SpacesAfter(text, marks) ==
    {i \in 2..Len(text) : text[i] = " " /\ text[i - 1] \in marks}

\* C16: for every text the chunker returns at least one chunk, and the chunks
\* joined by single spaces are the text with its whitespace normalized: its
\* words, in order, one space between two of them.
C16_ChunksRejoin ==
    Chunked =>
        /\ Len(last.chunks) >= 1
        /\ Join(last.chunks, <<" ">>) = Join(SplitWords(last.text), <<" ">>)

\* C16, witness: a sentence longer than the budget was split at its clause
\* separators and repacked: a chunk holds two parts, and a later chunk follows.
C16_Witness ==
    /\ Chunked
    /\ Len(last.chunks) >= 2
    /\ Len(Join(SplitWords(last.text), <<" ">>)) > MAX_CHUNK_CHARS
    /\ \A i \in 1..Len(last.text) : ~BoundaryAt(last.text, i, SentenceEnd)
    /\ SpacesAfter(last.chunks[1], ClauseEnd) # {}

\* C17, as stated: every chunk has at most MAX_CHUNK_CHARS characters, except a
\* chunk in which no comma, semicolon or dash is followed by another character.
C17_ChunkWithinBudget ==
    Chunked =>
        \A k \in 1..Len(last.chunks) :
            \/ Len(last.chunks[k]) <= MAX_CHUNK_CHARS
            \/ \A i \in 1..(Len(last.chunks[k]) - 1) : last.chunks[k][i] \notin ClauseEnd

\* C17, amended: every chunk has at most MAX_CHUNK_CHARS characters, except a
\* chunk in which no comma, semicolon or dash is followed by whitespace; a
\* chunk packed of several parts therefore never exceeds the budget.
C17_ChunkWithinBudgetAmended ==
    Chunked =>
        \A k \in 1..Len(last.chunks) :
            \/ Len(last.chunks[k]) <= MAX_CHUNK_CHARS
            \/ \A i \in 1..Len(last.chunks[k]) :
                   ~BoundaryAt(last.chunks[k], i, ClauseEnd)

\* C17, witness: one call returned a chunk packed of two parts and a chunk
\* longer than the budget with a comma inside it.
C17_Witness ==
    /\ Chunked
    /\ \E k \in 1..Len(last.chunks) : SpacesAfter(last.chunks[k], ClauseEnd) # {}
    /\ \E k \in 1..Len(last.chunks) :
           /\ Len(last.chunks[k]) > MAX_CHUNK_CHARS
           /\ \E i \in 1..(Len(last.chunks[k]) - 1) : last.chunks[k][i] = ","

\* C18, as stated: a text in which no '.', '!' or '?' is followed by whitespace
\* is returned as one chunk, the text normalized, whatever its length.
C18_NoBoundaryOneChunk ==
    (Chunked /\ \A i \in 1..Len(last.text) : ~BoundaryAt(last.text, i, SentenceEnd)) =>
        last.chunks = <<Join(SplitWords(last.text), <<" ">>)>>

\* C18, amended: a text in which no '.', '!' or '?' is followed by whitespace,
\* and which either has at most MAX_CHUNK_CHARS characters once normalized or
\* in which no comma, semicolon or dash is followed by whitespace, is returned
\* as one chunk, the text normalized.
C18_NoBoundaryOneChunkAmended ==
    (/\ Chunked
     /\ \A i \in 1..Len(last.text) : ~BoundaryAt(last.text, i, SentenceEnd)
     /\ \/ Len(Join(SplitWords(last.text), <<" ">>)) <= MAX_CHUNK_CHARS
        \/ \A i \in 1..Len(last.text) : ~BoundaryAt(last.text, i, ClauseEnd)) =>
        last.chunks = <<Join(SplitWords(last.text), <<" ">>)>>

\* C18, witness: a text of more than MAX_CHUNK_CHARS characters, of several
\* words, with a comma but without a boundary of either kind, came back whole.
C18_Witness ==
    /\ Chunked
    /\ Len(last.chunks) = 1
    /\ Len(last.chunks[1]) > MAX_CHUNK_CHARS
    /\ Len(SplitWords(last.text)) >= 2
    /\ \E i \in 1..Len(last.text) : last.text[i] = ","
    /\ \A i \in 1..Len(last.text) : ~BoundaryAt(last.text, i, SentenceEnd)

\* A generate that returned its audio and filename.
Succeeded(call) ==
    call.op = "generate" /\ call.raised = NotRaised /\ gen.pc = "idle"

\* C19: a generate that succeeded on a text of N chunks made these calls, in
\* this order: the constructor of the runtime, exactly when the key was not in
\* the registry on entry; the model on chunk 1, ..., chunk N, each with the
\* speaker id resolved once from the request; save_audio.  The key is in the
\* registry from the first call of the model on.
C19_GenerateCalls ==
    /\ (last.op = "generate" /\ gen.pc # "idle") => last.model_key \in DOMAIN _models
    /\ Succeeded(last) =>
          LET chunks == split_into_sentences(last.text)
              N == Len(chunks)
              lazy == last.model_key \notin DOMAIN last.before.models
              off == IF lazy THEN 1 ELSE 0
          IN  /\ Len(last.events) = off + N + 1
              /\ lazy => last.events[1] = [call |-> "KaniTTS",
                                           model_key |-> last.model_key]
              /\ \A i \in 1..N :
                    last.events[off + i] =
                        [call |-> "model", index |-> i, chunk |-> chunks[i],
                         speaker_id |-> speaker_id(last.speaker, last.model_key)]
              /\ last.events[off + N + 1].call = "save_audio"
              /\ last.model_key \in DOMAIN _models

\* C19, witness: a generate without a speaker, on a key that was not in the
\* registry, succeeded on a text of three chunks.
C19_Witness ==
    /\ Succeeded(last)
    /\ last.model_key \notin DOMAIN last.before.models
    /\ last.speaker = None
    /\ Len(split_into_sentences(last.text)) = 3
    /\ Len(last.events) = 5

\* C19, witness: a generate on a key that was in the registry succeeded on a
\* text of two chunks without a call of the constructor.
C19_WitnessResident ==
    /\ Succeeded(last)
    /\ last.model_key \in DOMAIN last.before.models
    /\ Len(split_into_sentences(last.text)) = 2
    /\ ~Constructs(last)

\* The keys other than the key of a call.
OtherKeys(call) == ModelKeys \ {call.model_key}

\* C20: load_model, unload_model and generate on a key leave every other key
\* as it was on entry: in the registry with the same handle, or out of it; and
\* the call constructs no handle for another key.  This holds of calls that
\* return and of calls that raise, and at every step of a generate.
C20_OtherKeysUntouched ==
    last.op \in {"load_model", "unload_model", "generate"} =>
        /\ \A k \in OtherKeys(last) :
              /\ k \in DOMAIN _models <=> k \in DOMAIN last.before.models
              /\ k \in DOMAIN _models => _models[k] = last.before.models[k]
        /\ \A i \in 1..Len(last.events) :
              last.events[i].call = "KaniTTS" =>
                  last.events[i].model_key = last.model_key

\* C20, witness: with the handle of another key in the registry, a generate
\* loaded its model and succeeded, and the other handle is still there.
C20_Witness ==
    /\ Succeeded(last)
    /\ Constructs(last)
    /\ \E k \in OtherKeys(last) : k \in DOMAIN last.before.models /\ k \in DOMAIN _models

\* C20, witness: with the handle of another key in the registry, a load_model
\* raised in the constructor.
C20_WitnessFailedLoad ==
    /\ last.op = "load_model"
    /\ last.raised = FailedToLoad
    /\ \E k \in OtherKeys(last) : k \in DOMAIN _models

\* C20, witness: with the handle of another key in the registry, an
\* unload_model removed the handle of its key.
C20_WitnessUnload ==
    /\ last.op = "unload_model"
    /\ last.returned = TRUE
    /\ \E k \in OtherKeys(last) : k \in DOMAIN _models

\* C21: the marker _current_model_key is None or a key of the registry, at
\* every point of every sequence of calls.  A load_model that returned left
\* the marker on its key; an unload_model left it None when it was on its key,
\* and as it was otherwise; a call that raised in load_model left it as it was.
C21_MarkerResident ==
    /\ _current_model_key = None \/ _current_model_key \in DOMAIN _models
    /\ (last.op = "load_model" /\ last.raised = NotRaised) =>
          _current_model_key = last.model_key
    /\ (last.op = "load_model" /\ last.raised # NotRaised) =>
          _current_model_key = last.before.current
    /\ last.op = "unload_model" =>
          _current_model_key = (IF last.before.current = last.model_key THEN None
                                ELSE last.before.current)

\* C21, witness: with two handles in the registry and the marker on one, the
\* other was unloaded; the marker stayed.
C21_Witness ==
    /\ last.op = "unload_model"
    /\ last.returned = TRUE
    /\ last.before.current \in DOMAIN MODELS \ {last.model_key}
    /\ _current_model_key = last.before.current

\* C21, witness: the key the marker was on was unloaded while another handle
\* stayed in the registry; the marker is None.
C21_WitnessCleared ==
    /\ last.op = "unload_model"
    /\ last.returned = TRUE
    /\ last.before.current = last.model_key
    /\ _current_model_key = None
    /\ _models # <<>>

\* C22: every snapshot of status completed reports progress_percent 100.0
\* (1000 tenths), on the short cut of a downloaded model and after a transfer
\* that returned, whatever sizes the metadata fetch reported.
C22_CompletedIsFull ==
    \A i \in ProgressSnapshots :
        dl.out[i].status = "completed" => dl.out[i].progress_percent = 1000

\* C22, the cases where it holds: the short cut, and a transfer that returned
\* with a total that is not 0.
C22_CompletedIsFullWithTotal ==
    \A i \in ProgressSnapshots :
        (dl.out[i].status = "completed" /\ dl.out[i].total_size # 0) =>
            dl.out[i].progress_percent = 1000

====
